---- MODULE Spec2Model ----
(***************************************************************************)
(* Model of src/path/path.rs of jsonpath-rust: the Path trait, the         *)
(* selectors EmptyPath, RootPointer, ArraySlice, ArrayIndex, ObjectField   *)
(* and Chain, and the dispatchers process_path / process_path_index.       *)
(*                                                                         *)
(* i32 and usize are modelled as two's-complement integers of IntBits and  *)
(* UsizeBits bits, so that the `as` casts and the arithmetic of            *)
(* ArraySlice::start / ArraySlice::end keep their wrap-around behaviour on *)
(* arrays the model can hold.                                              *)
(***************************************************************************)
EXTENDS Integers, Sequences, FiniteSets, TLC

\* ------------------------------------------------------------------ bounds
UsizeBits == 6      \* width of the unsigned index type (usize, 64 bits in the source)
MaxLen == 9         \* longest array of the documents
MaxStep == 2        \* largest slice step
MaxChain == 2       \* longest JsonPath::Path chain

\* Width of the signed bound type: i32 is half as wide as usize.
IntBits == UsizeBits \div 2
Pow2(n) == 2 ^ n
MinInt == 0 - Pow2(IntBits - 1)
MaxInt == Pow2(IntBits - 1) - 1
I32 == MinInt .. MaxInt
UsizeMod == Pow2(UsizeBits)

\* ------------------------------------------------------- serde_json::Value
\* Every node has the same fields, so that any two nodes can be compared.
Null == [kind |-> "Null", num |-> 0, elems |-> <<>>, keys |-> <<>>]
Num(n) == [kind |-> "Number", num |-> n, elems |-> <<>>, keys |-> <<>>]
Arr(es) == [kind |-> "Array", num |-> 0, elems |-> es, keys |-> <<>>]
Obj(ks, vs) == [kind |-> "Object", num |-> 0, elems |-> vs, keys |-> ks]

\* Value::as_array / Value::as_object: Some(..) exactly for that kind.
IsArray(v) == v.kind = "Array"
IsObject(v) == v.kind = "Object"

\* Vec::get(idx): Some(&v[idx]) iff idx < len (0-based).
VecGet(es, idx) == IF idx >= 0 /\ idx < Len(es) THEN <<es[idx + 1]>> ELSE <<>>

\* Map::get(key): the value stored under key, if any (keys are unique).
MapGet(v, key) ==
    LET hit == {i \in 1..Len(v.keys) : v.keys[i] = key}
    IN IF hit = {} THEN <<>> ELSE <<v.elems[CHOOSE i \in hit : TRUE]>>

\* ----------------------------------------------------------- machine ints
\* Two's-complement wrap of a mathematical integer into the signed type.
WrapI32(x) == ((x - MinInt) % Pow2(IntBits)) + MinInt
\* `n as i32` for a usize n, and `x as usize` for an i32 x.
AsI32(n) == WrapI32(n)
AsUsize(x) == x % UsizeMod
\* A signed operation: the wrapped value and whether it overflowed.
Arith(exact) == [val |-> WrapI32(exact), ovf |-> exact < MinInt \/ exact > MaxInt]

\* Option<usize> plus the panic an overflow raises when overflow checks are on.
None == [some |-> FALSE, val |-> 0, panic |-> FALSE]
Some(u) == [some |-> TRUE, val |-> u, panic |-> FALSE]
Overflow == [some |-> FALSE, val |-> 0, panic |-> TRUE]

\* -------------------------------------------------------- Vec<&Value> result
Ok(vals) == [panic |-> FALSE, vals |-> vals]
Panic == [panic |-> TRUE, vals |-> <<>>]

\* ------------------------------------------------------------------ state
VARIABLES
    root,             \* the document the selectors are bound to
    overflow_checks,  \* build profile: TRUE panics on integer overflow, FALSE wraps
    pc,               \* "start" | "built" (a selector exists) | "done" (path() returned)
    expr,             \* the JsonPath handed to process_path, if the selector came from it
    selector,         \* the PathInstance last constructed
    data,             \* the context node last handed to path()
    result            \* what path() produced: a panic or a Vec<&Value>

vars == <<root, overflow_checks, pc, expr, selector, data, result>>

\* ------------------------------------------------------------- selectors
NoSelector == [type |-> "None"]
EmptyPath == [type |-> "EmptyPath"]
RootPointer_new(r) == [type |-> "RootPointer", root |-> r]
ArraySlice_new(start_index, end_index, step) ==
    [type |-> "ArraySlice", start_index |-> start_index, end_index |-> end_index,
     step |-> step]
ArrayIndex_new(index) == [type |-> "ArrayIndex", index |-> index]
ObjectField_new(key) == [type |-> "ObjectField", key |-> key]
Chain_new(chain) == [type |-> "Chain", chain |-> chain]
Chain_from_index(key, index) == Chain_new(<<key, index>>)

\* EmptyPath::path returning no match instead of the context.
Mut_EmptyPath_path(self, d) == Ok(<<>>)

\* EmptyPath::path: vec![&data]
EmptyPath_path(self, d) == Ok(<<d>>)

\* RootPointer::path returning the context instead of the captured root.
Mut_RootPointer_path(self, d) == Ok(<<d>>)

\* RootPointer::path: vec![self.root]
RootPointer_path(self, d) == Ok(<<self.root>>)

\* ArraySlice::end: normalises end_index against len (an i32).
ArraySlice_end(self, len) ==
    LET b == self.end_index
        negLen == Arith(len * (0 - 1))
        negB == Arith(b * (0 - 1))
        diff == Arith(len - negB.val)
    IN IF b >= 0
       THEN IF b > len THEN None ELSE Some(AsUsize(b))
       ELSE IF negLen.ovf /\ overflow_checks THEN Overflow
       ELSE IF b < negLen.val THEN None
       ELSE IF (negB.ovf \/ diff.ovf) /\ overflow_checks THEN Overflow
       ELSE Some(AsUsize(diff.val))

\* ArraySlice::start: normalises start_index against len (an i32).
ArraySlice_start(self, len) ==
    LET b == self.start_index
        negLen == Arith(len * (0 - 1))
        negB == Arith(b * (0 - 1))
        diff == Arith(len - negB.val)
    IN IF b >= 0
       THEN IF b > len THEN None ELSE Some(AsUsize(b))
       ELSE IF negLen.ovf /\ overflow_checks THEN Overflow
       ELSE IF b < negLen.val THEN None
       ELSE IF (negB.ovf \/ diff.ovf) /\ overflow_checks THEN Overflow
       ELSE Some(AsUsize(diff.val))

\* The walk with an inclusive end (start_idx..=end_idx).
RECURSIVE Mut_StepBy(_, _, _, _)
Mut_StepBy(elements, idx, end_idx, step) ==
    IF idx > end_idx THEN <<>>
    ELSE VecGet(elements, idx) \o Mut_StepBy(elements, idx + step, end_idx, step)

\* for idx in (start_idx..end_idx).step_by(step) { if let Some(v) = elements.get(idx) { push } }
RECURSIVE StepBy(_, _, _, _)
StepBy(elements, idx, end_idx, step) ==
    IF idx >= end_idx THEN <<>>
    ELSE VecGet(elements, idx) \o StepBy(elements, idx + step, end_idx, step)

\* ArraySlice::process. Iterator::step_by asserts step != 0 when it is called.
ArraySlice_process(self, elements) ==
    LET len == AsI32(Len(elements))
        st == ArraySlice_start(self, len)
        en == ArraySlice_end(self, len)
    IN IF st.panic THEN Panic
       ELSE IF en.panic THEN Panic
       ELSE IF st.some /\ en.some
            THEN IF self.step = 0 THEN Panic
                 ELSE Ok(StepBy(elements, st.val, en.val, self.step))
            ELSE Ok(<<>>)

\* ArraySlice::path
ArraySlice_path(self, d) ==
    IF IsArray(d) THEN ArraySlice_process(self, d.elems) ELSE Ok(<<>>)

\* ArrayIndex::path counting an index past the end from the end of the array.
Mut_ArrayIndex_path(self, d) ==
    IF IsArray(d)
    THEN Ok(VecGet(d.elems, IF self.index >= Len(d.elems)
                            THEN 2 * Len(d.elems) - 1 - self.index ELSE self.index))
    ELSE Ok(<<>>)

\* ArrayIndex::path
ArrayIndex_path(self, d) ==
    IF IsArray(d) THEN Ok(VecGet(d.elems, self.index)) ELSE Ok(<<>>)

\* ObjectField::path passing the context through when the key is absent.
Mut_ObjectField_path(self, d) ==
    IF IsObject(d)
    THEN IF MapGet(d, self.key) = <<>> THEN Ok(<<d>>) ELSE Ok(MapGet(d, self.key))
    ELSE Ok(<<>>)

\* ObjectField::path
ObjectField_path(self, d) ==
    IF IsObject(d) THEN Ok(MapGet(d, self.key)) ELSE Ok(<<>>)

RECURSIVE Path(_, _)

\* inter_res.iter().flat_map(|d| path.path(d)).collect(): element-major
\* concatenation; a panic inside path.path(d) unwinds through the collect.
RECURSIVE FlatMap(_, _)
FlatMap(inter_res, path) ==
    IF inter_res = <<>> THEN Ok(<<>>)
    ELSE LET first == Path(path, Head(inter_res))
         IN IF first.panic THEN Panic
            ELSE LET rest == FlatMap(Tail(inter_res), path)
                 IN IF rest.panic THEN Panic ELSE Ok(first.vals \o rest.vals)

\* self.chain.iter().fold(vec![data], |inter_res, path| ...)
RECURSIVE Fold(_, _)
Fold(chain, inter_res) ==
    IF chain = <<>> THEN Ok(inter_res)
    ELSE LET next == FlatMap(inter_res, Head(chain))
         IN IF next.panic THEN Panic ELSE Fold(Tail(chain), next.vals)

\* Chain::path applying every step to the original context and keeping the
\* last step's matches, instead of threading the intermediate results.
Mut_Chain_path(self, d) ==
    IF self.chain = <<>> THEN Ok(<<d>>) ELSE Path(self.chain[Len(self.chain)], d)

\* Chain::path
Chain_path(self, d) == Fold(self.chain, <<d>>)

\* Dynamic dispatch of Path::path through Box<dyn Path>.
Path(self, d) ==
    CASE self.type = "EmptyPath" -> EmptyPath_path(self, d)
      [] self.type = "RootPointer" -> RootPointer_path(self, d)
      [] self.type = "ArraySlice" -> ArraySlice_path(self, d)
      [] self.type = "ArrayIndex" -> ArrayIndex_path(self, d)
      [] self.type = "ObjectField" -> ObjectField_path(self, d)
      [] self.type = "Chain" -> Chain_path(self, d)

\* ------------------------------------------- JsonPath / JsonPathIndex (AST)
\* The enums of path::structures, as process_path matches on them; "Other"
\* stands for every variant the two matches leave to their `_` arm.
NoIndex == [tag |-> "None", a |-> 0, b |-> 0, step |-> 0]
JsonPathIndex_Single(index) == [tag |-> "Single", a |-> index, b |-> 0, step |-> 0]
JsonPathIndex_Slice(s, e, step) == [tag |-> "Slice", a |-> s, b |-> e, step |-> step]
JsonPathIndex_Other == [tag |-> "Other", a |-> 0, b |-> 0, step |-> 0]

NoPath == [tag |-> "None", key |-> "", index |-> NoIndex, chain |-> <<>>]
JsonPath_Root == [tag |-> "Root", key |-> "", index |-> NoIndex, chain |-> <<>>]
JsonPath_Field(key) == [tag |-> "Field", key |-> key, index |-> NoIndex, chain |-> <<>>]
JsonPath_Path(chain) == [tag |-> "Path", key |-> "", index |-> NoIndex, chain |-> chain]
JsonPath_Index(key, index) == [tag |-> "Index", key |-> key, index |-> index, chain |-> <<>>]
JsonPath_Other == [tag |-> "Other", key |-> "", index |-> NoIndex, chain |-> <<>>]

\* process_path_index
process_path_index(json_path_index, r) ==
    CASE json_path_index.tag = "Single" -> ArrayIndex_new(json_path_index.a)
      [] json_path_index.tag = "Slice" ->
            ArraySlice_new(json_path_index.a, json_path_index.b, json_path_index.step)
      [] OTHER -> EmptyPath

RECURSIVE process_path(_, _)

\* Chain::from: chain.iter().map(|p| process_path(p, root)).collect()
Chain_from(chain, r) ==
    Chain_new([i \in 1..Len(chain) |-> process_path(chain[i], r)])

\* process_path
process_path(json_path, r) ==
    CASE json_path.tag = "Root" -> RootPointer_new(r)
      [] json_path.tag = "Field" -> ObjectField_new(json_path.key)
      [] json_path.tag = "Path" -> Chain_from(json_path.chain, r)
      [] json_path.tag = "Index" ->
            Chain_from_index(ObjectField_new(json_path.key),
                             process_path_index(json_path.index, r))
      [] OTHER -> EmptyPath

\* -------------------------------------------------------------- documents
\* [0, 1, ..., n-1], the arrays of the tests.
NumArr(n) == Arr([i \in 1..n |-> Num(i - 1)])
\* {"v": {"k": {"f": 42, "array": [0, .., n-1]}}}, the document of path_instance_test.
DocTest(n) ==
    Obj(<<"v">>, <<Obj(<<"k">>, <<Obj(<<"f", "array">>, <<Num(42), NumArr(n)>>)>>)>>)
\* {"array": [{"array": [0,1]}, {"array": [0,1,2]}, 5]}: a slice of it has several matches.
DocNest ==
    Obj(<<"array">>,
        <<Arr(<<Obj(<<"array">>, <<NumArr(2)>>), Obj(<<"array">>, <<NumArr(3)>>), Num(5)>>)>>)

Docs == {NumArr(n) : n \in 0..MaxLen} \cup {DocTest(MaxLen), DocNest}

RECURSIVE SubNodes(_)
\* Every node of the tree under v: the &Value a caller can hand to path().
SubNodes(v) == {v} \cup UNION {SubNodes(v.elems[i]) : i \in 1..Len(v.elems)}

Keys == {"v", "k", "f", "array", "fake"}
Steps == 0..MaxStep
Usizes == 0..(MaxLen + 1)

Singles == {JsonPathIndex_Single(i) : i \in Usizes}
Slices == {JsonPathIndex_Slice(s, e, st) : s \in I32, e \in I32, st \in Steps}

SimplePaths ==
    {JsonPath_Root, JsonPath_Other}
    \cup {JsonPath_Field(k) : k \in Keys}
    \cup {JsonPath_Index(k, ix) : k \in Keys, ix \in Singles \cup {JsonPathIndex_Other}}
    \cup {JsonPath_Index("array", ix) : ix \in Slices}

\* The steps chains are built from.
ChainSteps ==
    {JsonPath_Root, JsonPath_Other,
     JsonPath_Field("v"), JsonPath_Field("k"), JsonPath_Field("array"),
     JsonPath_Index("array", JsonPathIndex_Single(1)),
     JsonPath_Index("array", JsonPathIndex_Slice(0, 0 - 1, 1)),
     JsonPath_Index("array", JsonPathIndex_Slice(0, 1, 0))}

Chains == UNION {[1..n -> ChainSteps] : n \in 0..MaxChain}

\* ---------------------------------------------------------------- actions
Init ==
    /\ root \in Docs
    /\ overflow_checks \in BOOLEAN
    /\ pc = "start"
    /\ expr = NoPath
    /\ selector = NoSelector
    /\ data = Null
    /\ result = Ok(<<>>)

\* A selector sel now exists, built from the expression p if any.
Built(p, sel) ==
    /\ expr' = p
    /\ selector' = sel
    /\ pc' = "built"
    /\ data' = Null
    /\ result' = Ok(<<>>)
    /\ UNCHANGED <<root, overflow_checks>>

\* process_path(&json_path, &root) for a node that is not a chain.
ProcessPath ==
    /\ pc = "start"
    /\ \E p \in SimplePaths : Built(p, process_path(p, root))

\* process_path(&JsonPath::Path(&chain), &root)
ProcessChain ==
    /\ pc = "start"
    /\ \E c \in Chains : Built(JsonPath_Path(c), process_path(JsonPath_Path(c), root))

\* RootPointer::<Value>::new(&root)
NewRootPointer ==
    /\ pc = "start"
    /\ Built(NoPath, RootPointer_new(root))

\* ArraySlice::new(start_index, end_index, step)
NewArraySlice ==
    /\ pc = "start"
    /\ \E s \in I32, e \in I32, st \in Steps : Built(NoPath, ArraySlice_new(s, e, st))

\* ArrayIndex::new(index)
NewArrayIndex ==
    /\ pc = "start"
    /\ \E i \in Usizes : Built(NoPath, ArrayIndex_new(i))

\* ObjectField::new(&key)
NewObjectField ==
    /\ pc = "start"
    /\ \E k \in Keys : Built(NoPath, ObjectField_new(k))

\* selector.path(&d) for a node d of the document.
CallPath ==
    /\ pc = "built"
    /\ \E d \in SubNodes(root) :
          /\ data' = d
          /\ result' = Path(selector, d)
    /\ pc' = "done"
    /\ UNCHANGED <<root, overflow_checks, expr, selector>>

\* The selector is dropped; the next evaluation builds a fresh one.
Drop ==
    /\ pc = "done"
    /\ pc' = "start"
    /\ expr' = NoPath
    /\ selector' = NoSelector
    /\ data' = Null
    /\ result' = Ok(<<>>)
    /\ UNCHANGED <<root, overflow_checks>>

Next ==
    \/ ProcessPath
    \/ ProcessChain
    \/ NewRootPointer
    \/ NewArraySlice
    \/ NewArrayIndex
    \/ NewObjectField
    \/ CallPath
    \/ Drop

Spec == Init /\ [][Next]_vars

\* ================================================================= claims
\* The slice under evaluation and the node it is applied to: an ArraySlice
\* called directly, or the second step of the chain of JsonPath::Index(key, Slice).
ViaIndex == expr.tag = "Index" /\ expr.index.tag = "Slice"
SliceSel ==
    IF selector.type = "ArraySlice" THEN selector
    ELSE IF ViaIndex THEN selector.chain[2] ELSE NoSelector
\* The positions of key among the keys of node d.
Hits(d, key) == {i \in 1..Len(d.keys) : d.keys[i] = key}
FieldOf(d, key) ==
    IF IsObject(d) /\ Hits(d, key) # {}
    THEN <<d.elems[CHOOSE i \in Hits(d, key) : TRUE]>> ELSE <<>>
SliceCtx ==
    IF selector.type = "ArraySlice" THEN <<data>>
    ELSE IF ViaIndex THEN FieldOf(data, expr.key) ELSE <<>>
SliceOn == pc = "done" /\ SliceCtx # <<>> /\ IsArray(SliceCtx[1])
SliceArr == SliceCtx[1].elems
SliceLen == AsI32(Len(SliceArr))

\* C1: evaluation is total: whatever expression process_path turned into a
\* selector and whatever node the selector is applied to, path() returns a
\* sequence of matches and never panics.
C1_EvaluationTotal == (pc = "done" /\ expr # NoPath) => ~result.panic

\* The elements at s, s+step, s+2*step, ... below e.
Progression(elements, s, e, step) ==
    LET count == IF s >= e THEN 0 ELSE ((e - s - 1) \div step) + 1
    IN [k \in 1..count |-> elements[s + (k - 1) * step + 1]]
ProgressionInside(elements, s, e, step) ==
    \A idx \in s..(e - 1) : (idx - s) % step = 0 => idx < Len(elements)

SpecValid(b, n) == IF b >= 0 THEN b <= n ELSE (0 - b) <= n
SpecNorm(b, n) == IF b >= 0 THEN b ELSE n - (0 - b)
SpecBound(b, n) == IF SpecValid(b, n) THEN Some(SpecNorm(b, n)) ELSE None

\* C3: against an array of n elements a bound b >= 0 normalises to b and is
\* valid iff b <= n, a bound b < 0 normalises to n - |b| and is valid iff
\* |b| <= n; a slice with an invalid start or end bound returns the empty
\* sequence.
C3_NormalizationAllOrNothing ==
    (SliceOn /\ SliceSel.step >= 1) =>
        LET n == Len(SliceArr)
        IN /\ ArraySlice_start(SliceSel, SliceLen) = SpecBound(SliceSel.start_index, n)
           /\ ArraySlice_end(SliceSel, SliceLen) = SpecBound(SliceSel.end_index, n)
           /\ (~SpecValid(SliceSel.start_index, n) \/ ~SpecValid(SliceSel.end_index, n))
                 => result = Ok(<<>>)

\* C9: on an array of n elements, for 0 < k <= n and step >= 1, the slice
\* (-k, e, step) returns what the slice (n-k, e, step) returns.
C9_NegativeBoundEquivalence ==
    (SliceOn /\ SliceSel.step >= 1 /\ SliceSel.start_index < 0) =>
        LET n == Len(SliceArr)
            k == 0 - SliceSel.start_index
        IN (k <= n /\ n - k \in I32) =>
              result = ArraySlice_path(
                           ArraySlice_new(n - k, SliceSel.end_index, SliceSel.step),
                           SliceCtx[1])

\* C10: the normalisation arithmetic never wraps: the cast of the array
\* length to i32 keeps its value, len * -1, bound * -1 and len - |bound|
\* stay inside i32, the evaluation does not panic, and a bound more
\* negative than -len makes the slice empty.
C10_NoWrap ==
    (SliceOn /\ SliceSel.step >= 1) =>
        LET n == Len(SliceArr)
            NoOverflow(b) ==
                b < 0 =>
                    /\ ~Arith(SliceLen * (0 - 1)).ovf
                    /\ b >= 0 - SliceLen =>
                          /\ ~Arith(b * (0 - 1)).ovf
                          /\ ~Arith(SliceLen - (0 - b)).ovf
        IN /\ SliceLen = n
           /\ NoOverflow(SliceSel.start_index)
           /\ NoOverflow(SliceSel.end_index)
           /\ ~result.panic
           /\ (SliceSel.start_index < 0 - n \/ SliceSel.end_index < 0 - n)
                 => result = Ok(<<>>)

RECURSIVE Flatten(_)
Flatten(seqs) == IF seqs = <<>> THEN <<>> ELSE Head(seqs) \o Flatten(Tail(seqs))

\* Y applied to every match of an earlier evaluation, concatenated in the
\* order of those matches; a panic anywhere is a panic of the whole.
ConcatOver(xres, Y) ==
    IF xres.panic THEN Panic
    ELSE LET outs == [i \in 1..Len(xres.vals) |-> Path(Y, xres.vals[i])]
         IN IF \E i \in 1..Len(outs) : outs[i].panic THEN Panic
            ELSE Ok(Flatten([i \in 1..Len(outs) |-> outs[i].vals]))
Front(chain) == SubSeq(chain, 1, Len(chain) - 1)

\* C4: the chain [X, Y] on c yields the concatenation, over the matches m of
\* X on c in order, of Y on m; a chain of any length is the left-to-right
\* fold from [c] (the empty chain yields [c], a longer one applies its last
\* step to every match of the chain before it), so once an intermediate
\* list is empty the result is empty whatever steps follow.
C4_ChainDistributivity ==
    (pc = "done" /\ selector.type = "Chain") =>
        LET chain == selector.chain
            n == Len(chain)
        IN /\ n = 0 => result = Ok(<<data>>)
           /\ n = 2 => result = ConcatOver(Path(chain[1], data), chain[2])
           /\ n >= 1 => result = ConcatOver(Path(Chain_new(Front(chain)), data), chain[n])
           /\ \A j \in 0..n :
                 Path(Chain_new(SubSeq(chain, 1, j)), data) = Ok(<<>>) => result = Ok(<<>>)

\* A two-step chain whose first step has several matches, each of which the
\* second step matched.
C4_Witness ==
    /\ pc = "done" /\ selector.type = "Chain" /\ Len(selector.chain) = 2
    /\ ~result.panic
    /\ Len(Path(selector.chain[1], data).vals) >= 2
    /\ Len(result.vals) >= 2
    /\ result.vals # Path(selector.chain[1], data).vals

\* The index under evaluation and the node it is applied to: an ArrayIndex
\* called directly, or the second step of JsonPath::Index(key, Single).
ViaSingle == expr.tag = "Index" /\ expr.index.tag = "Single"
IndexOn == pc = "done" /\ (selector.type = "ArrayIndex" \/ ViaSingle)
IndexSel == IF selector.type = "ArrayIndex" THEN selector ELSE selector.chain[2]
IndexCtx == IF selector.type = "ArrayIndex" THEN <<data>> ELSE FieldOf(data, expr.key)

\* C5: on an array A of n elements ArrayIndex(i) returns [A[i]] when i < n
\* and [] when i >= n (an index is never counted from the end); on a node
\* that is not an array it returns [].
C5_IndexSelection ==
    IndexOn =>
        IF IndexCtx # <<>> /\ IsArray(IndexCtx[1]) /\ IndexSel.index < Len(IndexCtx[1].elems)
        THEN result = Ok(<<IndexCtx[1].elems[IndexSel.index + 1]>>)
        ELSE result = Ok(<<>>)

\* An index past the end of a non-empty array was applied and matched nothing.
C5_Witness ==
    /\ IndexOn /\ IndexCtx # <<>> /\ IsArray(IndexCtx[1])
    /\ Len(IndexCtx[1].elems) >= 2
    /\ IndexSel.index >= Len(IndexCtx[1].elems)
    /\ result = Ok(<<>>)

\* C6: ObjectField(name) returns the one-element list [context[name]] when
\* the context is an object with the key name, and the empty list otherwise
\* (key absent, array, scalar); never more than one match, never a panic.
C6_FieldSelection ==
    (pc = "done" /\ selector.type = "ObjectField") =>
        /\ ~result.panic
        /\ Len(result.vals) <= 1
        /\ IF IsObject(data) /\ Hits(data, selector.key) # {}
           THEN \E i \in Hits(data, selector.key) : result.vals = <<data.elems[i]>>
           ELSE result.vals = <<>>

\* A field lookup on an object that lacks the key.
C6_Witness ==
    /\ pc = "done" /\ selector.type = "ObjectField"
    /\ IsObject(data) /\ Hits(data, selector.key) = {}
    /\ result = Ok(<<>>)

\* C7: a RootPointer returns exactly [root] whatever node it is applied to,
\* also as a later step of a chain, where every node the earlier steps
\* matched is replaced by the root.
C7_RootIgnoresContext ==
    pc = "done" =>
        /\ selector.type = "RootPointer" => result = Ok(<<root>>)
        /\ (selector.type = "Chain" /\ Len(selector.chain) >= 2
               /\ selector.chain[Len(selector.chain)].type = "RootPointer") =>
              LET pre == Path(Chain_new(Front(selector.chain)), data)
              IN ~pre.panic => result = Ok([i \in 1..Len(pre.vals) |-> root])

\* Root as the second step of a chain, applied to a match that is not the root.
C7_Witness ==
    /\ pc = "done" /\ selector.type = "Chain" /\ Len(selector.chain) = 2
    /\ selector.chain[2].type = "RootPointer"
    /\ data # root
    /\ Path(selector.chain[1], data).vals # <<>>
    /\ \A i \in 1..Len(Path(selector.chain[1], data).vals) :
          Path(selector.chain[1], data).vals[i] # root
    /\ result.vals # <<>>

\* C8: a node process_path does not recognise, and an index spec
\* process_path_index does not recognise, become EmptyPath, which returns
\* [c] on every context c; so Index(name, unrecognised) selects what
\* Field(name) selects, and an unrecognised last step of a chain leaves the
\* matches of the steps before it unchanged.
C8_FallbackIdentity ==
    pc = "done" =>
        /\ expr.tag = "Other" => (selector = EmptyPath /\ result = Ok(<<data>>))
        /\ (expr.tag = "Index" /\ expr.index.tag = "Other") =>
              /\ selector.chain[2] = EmptyPath
              /\ result = Ok(FieldOf(data, expr.key))
        /\ (expr.tag = "Path" /\ expr.chain # <<>>
               /\ expr.chain[Len(expr.chain)].tag = "Other") =>
              result = Path(process_path(JsonPath_Path(Front(expr.chain)), root), data)

\* Index(name, unrecognised) matched the field name of an object.
C8_Witness ==
    /\ pc = "done" /\ expr.tag = "Index" /\ expr.index.tag = "Other"
    /\ result.vals # <<>>

====
